---- MODULE Spec2Model ----
(***************************************************************************)
(* FootballStatsReporter (src/utils/schema.py): construction, the          *)
(* load-or-build branch on the index path, the agent, query() with its     *)
(* error classification, and save_index().                                 *)
(*                                                                         *)
(* The program is single-threaded and synchronous: a constructor runs to   *)
(* its end (normally or by raising) before any other call starts.  The     *)
(* constructor is modelled in the steps of its call chain, so that the     *)
(* state between "fields assigned" and "agent created" is visible, and no  *)
(* other call is enabled while a constructor is on the stack.              *)
(*                                                                         *)
(* An object whose constructor raised was allocated and had its fields     *)
(* assigned (index = None, agent = None); it stays reachable (through the  *)
(* raising frame) and query()/save_index() can be called on it.            *)
(***************************************************************************)
EXTENDS Integers, Sequences, FiniteSets

VARIABLES
  disk,    \* index path -> what is stored there
  obj,     \* reporter -> its fields
  pc,      \* reporter -> position in its lifecycle
  branch,  \* reporter -> branch load_or_create_index took
  documents, \* reporter -> result of SimpleDirectoryReader.load_data, Unread if never called
  chats,   \* reporter -> number of agent.chat calls made on its agent
  ret,     \* outcome of the last call that ended
  chat     \* what agent.chat did in that call, NoChat if the call did not reach it

vars == <<disk, obj, pc, branch, documents, chats, ret, chat>>

-----------------------------------------------------------------------------
(* Bounds *)

MaxObjs == 2
NumDocs == 1
MaxChats == 2

Objs == 1..MaxObjs
DataPaths == {"data", "empty_dir"}
IndexPaths == {"index", "alt_index"}

\* The document directories: "data" holds NumDocs readable documents,
\* "empty_dir" holds none.
files == [d \in DataPaths |-> IF d = "data" THEN NumDocs ELSE 0]

-----------------------------------------------------------------------------
(* Values *)

None == [kind |-> "None", docs |-> 0]

SystemPrompt == "You are a helpful AI Football Stats Reporter"

Unset == [data_path |-> "", index_path |-> "", system_prompt |-> "",
          index |-> None, agent |-> None]

Absent == [kind |-> "absent", docs |-> 0]
EmptyDir == [kind |-> "dir", docs |-> 0]

Unread == 0 - 1

\* The text of an exception, str(e), as the set of tokens that occur in it;
\* each marker query() looks for is one token.
ErrTokens == {"model_not_found", "authentication_error", "rate_limit_exceeded", "timeout"}

ErrTexts == SUBSET ErrTokens

\* A text: a literal, or a literal followed by an interpolated str(e).
Text(msg) == [msg |-> msg, arg |-> {}]
Interpolated(msg, e) == [msg |-> msg, arg |-> e]

Responses == {Text("Messi scored 91 goals in 2012"), Text("I only answer football questions")}

\* What agent.chat does: returns a response, or raises an Exception with a text.
ChatOutcomes ==
  [raises : {FALSE}, response : Responses, error : {{}}]
    \cup [raises : {TRUE}, response : {Text("")}, error : ErrTexts]

NoChat == [raises |-> FALSE, response |-> Text(""), error |-> {}]

ModelNotFoundMsg == Text("The requested model is not available. Please try again with a different model.")
AuthMsg == Text("Authentication failed. Please check your API key.")
RateLimitMsg == Text("Rate limit exceeded. Please try again later.")
Unexpected(e) == Interpolated("An unexpected error occurred: ", e)

NoRet == [op |-> "none", self |-> 0, kind |-> "none", answer |-> Text(""),
          source_nodes |-> <<>>, error |-> ""]

Returned(op, o) == [NoRet EXCEPT !.op = op, !.self = o, !.kind = "returned"]
Raised(op, o, e) == [NoRet EXCEPT !.op = op, !.self = o, !.kind = "raised", !.error = e]

\* QueryResult(answer=..., source_nodes=...)
QueryResult(o, answer, source_nodes) ==
  [Returned("query", o) EXCEPT !.answer = answer, !.source_nodes = source_nodes]

-----------------------------------------------------------------------------
(* Helpers *)

\* "marker" in str(e)
Contains(text, marker) == marker \in text

\* Mutant: the branch tests a path that always exists (the data path).
PathExists_always(p) == TRUE

\* os.path.exists(self.index_path)
PathExists(p) == disk[p].kind # "absent"

\* os.makedirs(self.index_path, exist_ok=True)
makedirs(dk, p) == IF dk[p].kind = "absent" THEN [dk EXCEPT ![p] = EmptyDir] ELSE dk

\* Mutant: save_index creates the directory and writes nothing into it.
persist_nothing(dk, p, idx) == dk

\* self.index.storage_context.persist(persist_dir=self.index_path)
persist(dk, p, idx) == [dk EXCEPT ![p] = [kind |-> "index", docs |-> idx.docs]]

\* load_index_from_storage(StorageContext.from_defaults(persist_dir=...))
load_index_from_storage(p) == [kind |-> "index", docs |-> disk[p].docs]

\* VectorStoreIndex.from_documents(documents)
from_documents(n) == [kind |-> "index", docs |-> n]

\* SimpleDirectoryReader(self.data_path, recursive=True).load_data()
load_data(d) == files[d]

\* Mutant: the empty-document check is missing.
no_documents_never(n) == FALSE

\* not documents
no_documents(n) == n = 0

\* Mutant: the index directory is created before the documents are read.
create_index_disk_mkdir_first(dk, s) ==
  IF files[s.data_path] = 0 THEN makedirs(dk, s.index_path)
  ELSE [dk EXCEPT ![s.index_path] = [kind |-> "index", docs |-> files[s.data_path]]]

\* create_index(): what it leaves on disk, for a reporter with fields s.
create_index_disk(dk, s) ==
  IF no_documents(load_data(s.data_path)) THEN dk
  ELSE persist(makedirs(dk, s.index_path), s.index_path,
               from_documents(load_data(s.data_path)))

\* ReActAgent.from_tools([search_tool], ..., system_prompt=self.system_prompt, ...)
from_tools(s) == [kind |-> "agent", docs |-> s.index.docs]

\* The fields after lines 47-61 of __init__.
init_fields(d, p) ==
  [data_path |-> d, index_path |-> p, system_prompt |-> SystemPrompt,
   index |-> None, agent |-> None]

\* Mutant: the rate-limit test comes before the authentication test.
error_message_rate_first(e) ==
  IF Contains(e, "model_not_found") THEN ModelNotFoundMsg
  ELSE IF Contains(e, "rate_limit_exceeded") THEN RateLimitMsg
  ELSE IF Contains(e, "authentication_error") THEN AuthMsg
  ELSE Unexpected(e)

\* Mutant: the model_not_found test comes last of the three.
error_message_model_last(e) ==
  IF Contains(e, "authentication_error") THEN AuthMsg
  ELSE IF Contains(e, "rate_limit_exceeded") THEN RateLimitMsg
  ELSE IF Contains(e, "model_not_found") THEN ModelNotFoundMsg
  ELSE Unexpected(e)

\* The except branch of query(): the answer for an exception with text e.
error_message(e) ==
  LET first == Interpolated("Error generating response: ", e)
  IN IF Contains(e, "model_not_found") THEN ModelNotFoundMsg
     ELSE IF Contains(e, "authentication_error") THEN AuthMsg
     ELSE IF Contains(e, "rate_limit_exceeded") THEN RateLimitMsg
     ELSE Unexpected(e)

\* Mutant: the agent check sits inside the try block, so its error is
\* classified like any other.
query_outcome_check_in_try(o, s, out) ==
  IF s.agent = None
  THEN [Returned("query", o) EXCEPT
          !.answer = Unexpected({"Agent not initialized"})]
  ELSE IF ~out.raises THEN [Returned("query", o) EXCEPT !.answer = out.response]
  ELSE [Returned("query", o) EXCEPT !.answer =
          IF Contains(out.error, "model_not_found") THEN ModelNotFoundMsg
          ELSE IF Contains(out.error, "authentication_error") THEN AuthMsg
          ELSE IF Contains(out.error, "rate_limit_exceeded") THEN RateLimitMsg
          ELSE Unexpected(out.error)]

\* Mutant: the successful path fills source_nodes with the tool it used.
query_outcome_with_sources(o, s, out) ==
  IF s.agent = None THEN Raised("query", o, "Agent not initialized")
  ELSE IF ~out.raises
  THEN [Returned("query", o) EXCEPT !.answer = out.response,
                                    !.source_nodes = <<"document_search">>]
  ELSE [Returned("query", o) EXCEPT !.answer =
          IF Contains(out.error, "model_not_found") THEN ModelNotFoundMsg
          ELSE IF Contains(out.error, "authentication_error") THEN AuthMsg
          ELSE IF Contains(out.error, "rate_limit_exceeded") THEN RateLimitMsg
          ELSE Unexpected(out.error)]

\* query(): what the call ends with, for reporter o with fields s and the
\* outcome out of agent.chat (used only when chat is reached).
query_outcome(o, s, out) ==
  IF s.agent = None THEN Raised("query", o, "Agent not initialized")
  ELSE IF ~out.raises THEN QueryResult(o, out.response, <<>>)
  ELSE QueryResult(o, error_message(out.error), <<>>)

\* query(): whether agent.chat is invoked.
chat_invoked(s) == s.agent # None

\* A constructor is on the stack.
Busy == \E o \in Objs : pc[o] \in {"load_or_create_index", "_create_agent"}

-----------------------------------------------------------------------------
(* Initial state: nothing constructed, no index persisted. *)

Init ==
  /\ disk = [p \in IndexPaths |-> Absent]
  /\ obj = [o \in Objs |-> Unset]
  /\ pc = [o \in Objs |-> "uninitialized"]
  /\ branch = [o \in Objs |-> "none"]
  /\ documents = [o \in Objs |-> Unread]
  /\ chats = [o \in Objs |-> 0]
  /\ ret = NoRet
  /\ chat = NoChat

-----------------------------------------------------------------------------
(* Actions *)

\* __init__, lines 47-61: assign the configuration, index = None, agent = None.
Construct(o, d, p) ==
  /\ ~Busy
  /\ pc[o] = "uninitialized"
  /\ \A k \in Objs : k < o => pc[k] # "uninitialized"
  /\ obj' = [obj EXCEPT ![o] = init_fields(d, p)]
  /\ pc' = [pc EXCEPT ![o] = "load_or_create_index"]
  /\ UNCHANGED <<disk, branch, documents, chats, ret, chat>>

\* load_or_create_index, the branch where the index path exists: load_index().
LoadIndex(o) ==
  /\ pc[o] = "load_or_create_index"
  /\ PathExists(obj[o].index_path)
  /\ branch' = [branch EXCEPT ![o] = "load"]
  /\ IF disk[obj[o].index_path].kind = "index"
     THEN /\ obj' = [obj EXCEPT ![o].index = load_index_from_storage(obj[o].index_path)]
          /\ pc' = [pc EXCEPT ![o] = "_create_agent"]
          /\ UNCHANGED <<ret, chat>>
     ELSE \* a directory that holds no index: the framework's loader raises
          /\ obj' = obj
          /\ pc' = [pc EXCEPT ![o] = "failed"]
          /\ ret' = Raised("__init__", o, "No index found in storage")
          /\ chat' = NoChat
  /\ UNCHANGED <<disk, documents, chats>>

\* load_or_create_index, the branch where the index path does not exist:
\* create_index(), with its call of save_index().
CreateIndex(o) ==
  /\ pc[o] = "load_or_create_index"
  /\ ~PathExists(obj[o].index_path)
  /\ branch' = [branch EXCEPT ![o] = "create"]
  /\ documents' = [documents EXCEPT ![o] = load_data(obj[o].data_path)]
  /\ disk' = create_index_disk(disk, obj[o])
  /\ IF no_documents(load_data(obj[o].data_path))
     THEN /\ obj' = obj
          /\ pc' = [pc EXCEPT ![o] = "failed"]
          /\ ret' = Raised("__init__", o, "No documents found in specified path")
          /\ chat' = NoChat
     ELSE /\ obj' = [obj EXCEPT ![o].index = from_documents(load_data(obj[o].data_path))]
          /\ pc' = [pc EXCEPT ![o] = "_create_agent"]
          /\ UNCHANGED <<ret, chat>>
  /\ UNCHANGED chats

\* _create_agent, and the constructor's return.
CreateAgent(o) ==
  /\ pc[o] = "_create_agent"
  /\ obj' = [obj EXCEPT ![o].agent = from_tools(obj[o])]
  /\ pc' = [pc EXCEPT ![o] = "ready"]
  /\ ret' = Returned("__init__", o)
  /\ chat' = NoChat
  /\ UNCHANGED <<disk, branch, documents, chats>>

\* Mutant: query() drops the agent when agent.chat raised.
Query_drops_agent(o, out) ==
  /\ ~Busy
  /\ pc[o] \in {"ready", "failed"}
  /\ (obj[o].agent # None) => chats[o] < MaxChats
  /\ ret' = (IF obj[o].agent = None THEN Raised("query", o, "Agent not initialized")
             ELSE IF ~out.raises THEN [Returned("query", o) EXCEPT !.answer = out.response]
             ELSE [Returned("query", o) EXCEPT !.answer = Unexpected(out.error)])
  /\ chats' = [chats EXCEPT ![o] = IF obj[o].agent # None THEN @ + 1 ELSE @]
  /\ chat' = IF obj[o].agent # None THEN out ELSE NoChat
  /\ obj' = [obj EXCEPT ![o].agent = IF obj[o].agent # None /\ out.raises THEN None ELSE @]
  /\ UNCHANGED <<disk, pc, branch, documents>>

\* query(query): the query text is handed to agent.chat unread; out is what
\* agent.chat does with it.
Query(o, out) ==
  /\ ~Busy
  /\ pc[o] \in {"ready", "failed"}
  /\ chat_invoked(obj[o]) => chats[o] < MaxChats
  /\ ret' = query_outcome(o, obj[o], out)
  /\ chat' = IF chat_invoked(obj[o]) THEN out ELSE NoChat
  /\ chats' = [chats EXCEPT ![o] = IF chat_invoked(obj[o]) THEN @ + 1 ELSE @]
  /\ UNCHANGED <<disk, obj, pc, branch, documents>>

\* Mutant: save_index() rebinds index_path to the other storage location.
SaveIndex_rebinds_path(o) ==
  /\ ~Busy
  /\ pc[o] \in {"ready", "failed"}
  /\ disk' = (IF obj[o].index = None THEN makedirs(disk, obj[o].index_path)
              ELSE [disk EXCEPT ![obj[o].index_path] =
                      [kind |-> "index", docs |-> obj[o].index.docs]])
  /\ ret' = (IF obj[o].index = None THEN Raised("save_index", o, "AttributeError")
             ELSE Returned("save_index", o))
  /\ chat' = NoChat
  /\ obj' = [obj EXCEPT ![o].index_path =
              CHOOSE p \in IndexPaths : p # obj[o].index_path]
  /\ UNCHANGED <<pc, branch, documents, chats>>

\* save_index()
SaveIndex(o) ==
  /\ ~Busy
  /\ pc[o] \in {"ready", "failed"}
  /\ IF obj[o].index = None
     THEN \* makedirs ran, then self.index.storage_context raises on None
          /\ disk' = makedirs(disk, obj[o].index_path)
          /\ ret' = Raised("save_index", o, "AttributeError")
     ELSE /\ disk' = persist(makedirs(disk, obj[o].index_path), obj[o].index_path,
                             obj[o].index)
          /\ ret' = Returned("save_index", o)
  /\ chat' = NoChat
  /\ UNCHANGED <<obj, pc, branch, documents, chats>>

Next ==
  \/ \E o \in Objs, d \in DataPaths, p \in IndexPaths : Construct(o, d, p)
  \/ \E o \in Objs : LoadIndex(o)
  \/ \E o \in Objs : CreateIndex(o)
  \/ \E o \in Objs : CreateAgent(o)
  \/ \E o \in Objs, out \in ChatOutcomes : Query(o, out)
  \/ \E o \in Objs : SaveIndex(o)

Spec == Init /\ [][Next]_vars

-----------------------------------------------------------------------------
(* Properties *)

\* The last call that ended was a query() whose agent.chat call raised.
ChatRaised == ret.op = "query" /\ chat.raises

\* The reporter has left construction with its index and its agent set.
IsReady(o) == obj[o].index # None /\ obj[o].agent # None

\* Reporter o leaves the branch point of load_or_create_index in this step.
Branches(o) == pc[o] = "load_or_create_index" /\ pc'[o] # "load_or_create_index"

\* This step is a call of query() on reporter o.
QueryStep(o) ==
  /\ ret'.op = "query" /\ ret'.self = o
  /\ <<ret', chat', chats'>> # <<ret, chat, chats>>

\* This step is a call of save_index() on reporter o.
SaveStep(o) == ret'.op = "save_index" /\ ret'.self = o /\ SaveIndex(o)

\* C1 as stated: an error text containing "rate_limit_exceeded" gives the
\* rate-limit message, one containing "authentication_error" gives the
\* authentication message, any other text gives the generic message, and the
\* call returns normally.
C1_AsStated ==
  ChatRaised =>
    /\ ret.kind = "returned"
    /\ Contains(chat.error, "rate_limit_exceeded") => ret.answer = RateLimitMsg
    /\ Contains(chat.error, "authentication_error") => ret.answer = AuthMsg
    /\ (~Contains(chat.error, "rate_limit_exceeded")
        /\ ~Contains(chat.error, "authentication_error"))
       => ret.answer = Unexpected(chat.error)

\* C1 amended: when agent.chat raises, query() returns normally, and its
\* answer is the model-not-available message if the text contains
\* "model_not_found"; otherwise the authentication message if it contains
\* "authentication_error"; otherwise the rate-limit message if it contains
\* "rate_limit_exceeded"; otherwise the generic message with the text.
C1_Classification ==
  ChatRaised =>
    /\ ret.kind = "returned"
    /\ ret.answer =
         IF Contains(chat.error, "model_not_found") THEN ModelNotFoundMsg
         ELSE IF Contains(chat.error, "authentication_error") THEN AuthMsg
         ELSE IF Contains(chat.error, "rate_limit_exceeded") THEN RateLimitMsg
         ELSE Unexpected(chat.error)

\* C1 witness: a query whose chat call raised a text with the rate-limit
\* marker, and no marker tested before it, has returned the rate-limit message.
C1_Witness ==
  /\ ChatRaised /\ ret.kind = "returned"
  /\ chat.error = {"rate_limit_exceeded", "timeout"}
  /\ ret.answer = RateLimitMsg

\* C2 as stated: a finished construction over a data path with no readable
\* documents has raised, and the agent is None.
C2_AsStated ==
  \A o \in Objs :
    (pc[o] \in {"ready", "failed"} /\ files[obj[o].data_path] = 0)
      => (pc[o] = "failed" /\ obj[o].agent = None)

\* C2 amended: a construction over a data path with no readable documents
\* whose index path does not exist (the create branch) raises: the
\* constructor does not return, _create_agent is not reached, and index and
\* agent stay None.
C2_EmptyDataRaises ==
  \A o \in Objs :
    (branch[o] = "create" /\ files[obj[o].data_path] = 0)
      => /\ pc[o] = "failed"
         /\ obj[o].agent = None /\ obj[o].index = None
         /\ ret # Returned("__init__", o)

\* C2 witness: a constructor on the create branch over the empty data path
\* has raised.
C2_Witness ==
  \E o \in Objs :
    /\ branch[o] = "create" /\ obj[o].data_path = "empty_dir"
    /\ pc[o] = "failed"
    /\ ret = Raised("__init__", o, "No documents found in specified path")

\* C3: query() on a reporter whose agent is None raises "Agent not
\* initialized": no QueryResult is returned and agent.chat is not called.
C3_AgentNotInitialized ==
  /\ (ret.op = "query" /\ obj[ret.self].agent = None)
       => (ret = Raised("query", ret.self, "Agent not initialized") /\ chat = NoChat)
  /\ \A o \in Objs : obj[o].agent = None => chats[o] = 0

\* C3 witness: query() was called on a reporter whose constructor raised and
\* it raised the initialization error.
C3_Witness ==
  /\ ret.op = "query" /\ ret.kind = "raised" /\ ret.error = "Agent not initialized"
  /\ obj[ret.self].agent = None /\ pc[ret.self] = "failed"

\* C4: once save_index() has completed on index path P, P holds an index
\* from then on, and every construction that reaches load_or_create_index
\* with that path takes the load branch and does not read the data path.
C4_SaveThenLoad ==
  [][/\ \A o \in Objs :
          (SaveStep(o) /\ ret'.kind = "returned")
            => disk'[obj[o].index_path].kind = "index"
     /\ \A p \in IndexPaths : disk[p].kind = "index" => disk'[p].kind = "index"
     /\ \A o \in Objs :
          (Branches(o) /\ disk[obj[o].index_path].kind = "index")
            => (branch'[o] = "load" /\ documents'[o] = Unread
                /\ pc'[o] = "_create_agent")]_vars

\* C4 witness: save_index() returned on one reporter and the next
\* construction, on the same index path with the empty data path, took the
\* load branch.
C4_Witness ==
  \E o1, o2 \in Objs :
    /\ o1 # o2
    /\ ret = Returned("save_index", o1)
    /\ obj[o2].index_path = obj[o1].index_path
    /\ obj[o2].data_path = "empty_dir"
    /\ branch[o2] = "load" /\ pc[o2] = "_create_agent"

\* C5: the lifecycle is Uninitialized -> Loading-or-Building -> Ready (or a
\* raised constructor); a Ready reporter stays Ready under every operation,
\* with the same index and the same agent.
C5_Lifecycle ==
  /\ [](\A o \in Objs : pc[o] = "ready" <=> IsReady(o))
  /\ [][\A o \in Objs :
          /\ <<pc[o], pc'[o]>> \in
               { <<"uninitialized", "uninitialized">>,
                 <<"uninitialized", "load_or_create_index">>,
                 <<"load_or_create_index", "load_or_create_index">>,
                 <<"load_or_create_index", "_create_agent">>,
                 <<"load_or_create_index", "failed">>,
                 <<"_create_agent", "_create_agent">>,
                 <<"_create_agent", "ready">>,
                 <<"ready", "ready">>,
                 <<"failed", "failed">> }
          /\ IsReady(o) =>
               /\ pc'[o] = "ready"
               /\ obj'[o].index = obj[o].index
               /\ obj'[o].agent = obj[o].agent]_vars

\* C5 witness: a Ready reporter has answered two queries, the second one
\* after a chat call that raised, and is still Ready.
C5_Witness ==
  \E o \in Objs :
    /\ IsReady(o) /\ pc[o] = "ready" /\ chats[o] >= 2
    /\ ret.op = "query" /\ ret.self = o /\ ret.kind = "returned"
    /\ chat.raises

\* C6: every QueryResult that query() returns has an empty source_nodes list.
C6_EmptySourceNodes ==
  (ret.op = "query" /\ ret.kind = "returned") => ret.source_nodes = <<>>

\* C6 witness: a successful query, after an earlier one, has returned the
\* agent's response.
C6_Witness ==
  /\ ret.op = "query" /\ ret.kind = "returned"
  /\ ~chat.raises /\ ret.answer = chat.response
  /\ chats[ret.self] >= 2

\* C7: once the constructor has assigned data_path, index_path and
\* system_prompt, no step changes them; query() and save_index() also leave
\* index and agent as they were.
C7_ConfigurationFrame ==
  [][\A o \in Objs :
       /\ pc[o] # "uninitialized" =>
            /\ obj'[o].data_path = obj[o].data_path
            /\ obj'[o].index_path = obj[o].index_path
            /\ obj'[o].system_prompt = obj[o].system_prompt
       /\ (QueryStep(o) \/ SaveStep(o)) =>
            /\ obj'[o].index = obj[o].index
            /\ obj'[o].agent = obj[o].agent]_vars

\* C7 witness: save_index() has returned on a Ready reporter that had
\* already answered a query.
C7_Witness ==
  /\ ret.op = "save_index" /\ ret.kind = "returned"
  /\ pc[ret.self] = "ready" /\ chats[ret.self] >= 1
  /\ obj[ret.self].system_prompt = SystemPrompt

\* C8: load_or_create_index branches on the existence of the index path
\* alone.  If it exists the load branch is taken, the data path is not read,
\* and an index stored there is what the reporter gets, also over the empty
\* data path.  If it does not exist the create branch is taken, the data
\* path is read, and a non-empty document set is indexed and persisted in the
\* same step.  The index path of a successfully constructed reporter holds
\* an index.
C8_LoadOrCreate ==
  /\ [](\A o \in Objs :
          /\ branch[o] = "load" => documents[o] = Unread
          /\ branch[o] = "create" => documents[o] = files[obj[o].data_path]
          /\ pc[o] \in {"_create_agent", "ready"}
               => disk[obj[o].index_path].kind = "index")
  /\ [][\A o \in Objs :
          Branches(o) =>
            IF disk[obj[o].index_path].kind # "absent"
            THEN /\ branch'[o] = "load"
                 /\ disk' = disk
                 /\ disk[obj[o].index_path].kind = "index" =>
                      /\ pc'[o] = "_create_agent"
                      /\ obj'[o].index = [kind |-> "index",
                                          docs |-> disk[obj[o].index_path].docs]
            ELSE /\ branch'[o] = "create"
                 /\ files[obj[o].data_path] > 0 =>
                      /\ pc'[o] = "_create_agent"
                      /\ obj'[o].index = [kind |-> "index",
                                          docs |-> files[obj[o].data_path]]
                      /\ disk'[obj[o].index_path] = obj'[o].index]_vars

\* C8 witness: one reporter built and persisted the index, and a second one
\* over the empty data path loaded the same index and became Ready.
C8_Witness ==
  \E o1, o2 \in Objs :
    /\ branch[o1] = "create" /\ pc[o1] = "ready"
    /\ branch[o2] = "load" /\ pc[o2] = "ready"
    /\ obj[o2].data_path = "empty_dir"
    /\ obj[o2].index = obj[o1].index

\* C9: the classification is first match wins in the order model_not_found,
\* authentication_error, rate_limit_exceeded, generic: a text containing
\* "model_not_found" gives the model-not-available message whatever else it
\* contains, a text containing both other markers without it gives the
\* authentication message, and every answer is one of the four messages.
C9_FirstMatchWins ==
  ChatRaised =>
    /\ ret.answer \in {ModelNotFoundMsg, AuthMsg, RateLimitMsg, Unexpected(chat.error)}
    /\ Contains(chat.error, "model_not_found") => ret.answer = ModelNotFoundMsg
    /\ (Contains(chat.error, "authentication_error")
        /\ Contains(chat.error, "rate_limit_exceeded")
        /\ ~Contains(chat.error, "model_not_found")) => ret.answer = AuthMsg

\* C9 witness: a query whose chat call raised a text with all three markers
\* has returned the model-not-available message.
C9_Witness ==
  /\ ChatRaised /\ ret.kind = "returned"
  /\ chat.error = {"model_not_found", "authentication_error", "rate_limit_exceeded"}
  /\ ret.answer = ModelNotFoundMsg

\* C10: a construction that fails for lack of documents leaves the index
\* storage as it was, so the index path still does not exist; and a
\* construction that finds the index path absent takes the create branch.
C10_FailedBuildLeavesNoIndex ==
  [][\A o \in Objs :
       /\ (Branches(o) /\ disk[obj[o].index_path].kind = "absent"
           /\ files[obj[o].data_path] = 0)
            => (disk' = disk /\ pc'[o] = "failed")
       /\ (Branches(o) /\ disk[obj[o].index_path].kind = "absent")
            => (branch'[o] = "create" /\ documents'[o] # Unread)]_vars

\* C10 witness: after a construction failed for lack of documents, a second
\* construction on the same index path took the create branch again.
C10_Witness ==
  \E o1, o2 \in Objs :
    /\ o1 < o2
    /\ branch[o1] = "create" /\ pc[o1] = "failed" /\ documents[o1] = 0
    /\ obj[o2].index_path = obj[o1].index_path
    /\ branch[o2] = "create" /\ pc[o2] = "_create_agent"

====
